---- MODULE Spec2Model ----
(***************************************************************************)
(* Printer agent (src/agent.py): a sqlite-backed job table, an in-memory   *)
(* FIFO work queue, one worker thread that dispatches jobs with a retry    *)
(* policy, startup recovery, and the /print, /reprint and /stop handlers.  *)
(* One action per statement group of each handler, so that a crash or      *)
(* another thread can fall between any two of them.                        *)
(***************************************************************************)
EXTENDS Integers, Sequences, FiniteSets, Bags, TLC

\* ---------------------------------------------------------------- bounds
\* total number of INSERTs a run performs
MaxJobs == 2
\* number of times the process is killed and started again
MaxCrashes == 1
\* last value of the wall clock, in seconds since the first start
MaxTime == 1

\* the ids the table can hold
JobIds == 1..MaxJobs

\* the request-handler threads of the (threaded) HTTP server
Clients == {"c1", "c2"}

\* ------------------------------------------------------- values and codecs
\* a JSON key that is missing from the payload (dict.get returns None)
Absent == <<-1>>
\* SQL NULL in the last_error column
NULL == "NULL"
\* no job id (sqlite rowids start at 1)
NoId == 0

\* Python truthiness of a payload field: missing and "" are both falsy
Truthy(v) == v # Absent /\ v # <<>>

\* one code point as UTF-8 (str.encode('utf-8')), code points below 2^16
Utf8Char(cp) ==
    IF cp < 128 THEN <<cp>>
    ELSE IF cp < 2048 THEN <<192 + (cp \div 64), 128 + (cp % 64)>>
    ELSE <<224 + (cp \div 4096), 128 + ((cp \div 64) % 64), 128 + (cp % 64)>>

RECURSIVE Utf8(_)
Utf8(s) == IF s = <<>> THEN <<>> ELSE Utf8Char(Head(s)) \o Utf8(Tail(s))

\* the text "<no text>" that process_job prints when the payload has no text key
NoText == <<60, 110, 111, 32, 116, 101, 120, 116, 62>>

\* mutant of render_text_to_escpos_bytes: the line feed before the cut is left out
render_text_without_lf(text) == Utf8(text) \o <<29, 86, 49>>

\* text + LF + GS V '1'
render_text_to_escpos_bytes(text) == Utf8(text) \o <<10>> \o <<29, 86, 49>>

\* base64: a string is a sequence of sextet values 0..63, 64 stands for '='.
\* b64decode fails ("Incorrect padding") unless the length is a multiple of 4.
B64Pad == 64
B64Group(g) ==
    LET n == g[1] * 262144 + g[2] * 4096
             + (IF g[3] = B64Pad THEN 0 ELSE g[3] * 64)
             + (IF g[4] = B64Pad THEN 0 ELSE g[4])
        b1 == n \div 65536
        b2 == (n \div 256) % 256
        b3 == n % 256
    IN  IF g[3] = B64Pad THEN <<b1>>
        ELSE IF g[4] = B64Pad THEN <<b1, b2>>
        ELSE <<b1, b2, b3>>

RECURSIVE B64Bytes(_)
B64Bytes(s) ==
    IF s = <<>> THEN <<>>
    ELSE B64Group(SubSeq(s, 1, 4)) \o B64Bytes(SubSeq(s, 5, Len(s)))

B64Ok(s) == Len(s) % 4 = 0
b64decode(s) == B64Bytes(s)

\* int(): a port given as a string of digits parses, anything else raises
IsDigits(s) == s # <<>> /\ \A i \in 1..Len(s) : s[i] \in 48..57
RECURSIVE ParseInt(_)
ParseInt(s) ==
    IF s = <<>> THEN 0 ELSE 10 * ParseInt(SubSeq(s, 1, Len(s) - 1)) + (s[Len(s)] - 48)

\* json.dumps / json.loads of a payload: the stored column is the serialised
\* form (a tuple of the members), the handlers work on the parsed form.
json_dumps(p) == <<p.mode, p.text, p.raw_bytes_base64, p.host, p.port>>
json_loads(s) ==
    [mode |-> s[1], text |-> s[2], raw_bytes_base64 |-> s[3], host |-> s[4], port |-> s[5]]

\* ------------------------------------------------------------- payloads
\* {"text": "Hé"}: no printer, goes to the file fallback unless a default host is set
PText == [mode |-> "text", text |-> <<72, 233>>, raw_bytes_base64 |-> Absent,
          host |-> "", port |-> <<>>]
\* {"mode": "raw", "raw_bytes_base64": "SGk=", "printer": {"host": "10.0.0.1", "port": "91"}}
PRawNet == [mode |-> "raw", text |-> Absent, raw_bytes_base64 |-> <<18, 6, 36, 64>>,
            host |-> "10.0.0.1", port |-> <<57, 49>>]
\* {"mode": "raw", "raw_bytes_base64": "SGk"}: cannot be decoded
PRawBad == [mode |-> "raw", text |-> Absent, raw_bytes_base64 |-> <<18, 6, 36>>,
            host |-> "", port |-> <<>>]
\* {"text": "Hi", "printer": {"host": "10.0.0.1", "port": "a"}}: port is no number
PBadPort == [mode |-> "text", text |-> <<72, 105>>, raw_bytes_base64 |-> Absent,
             host |-> "10.0.0.1", port |-> <<97>>]
\* {"text": "", "mode": "text"}: neither text nor raw bytes
PEmpty == [mode |-> "text", text |-> <<>>, raw_bytes_base64 |-> Absent,
           host |-> "", port |-> <<>>]

Payloads == {PText, PRawNet, PRawBad, PBadPort, PEmpty}

\* the values of PRINTER_HOST a deployment may have: unset, or a printer
DefaultHosts == {"", "192.168.1.50"}
DEFAULT_PRINTER_PORT == 9100

\* retry policy of process_job
max_attempts == 3

\* ----------------------------------------------------------------- state
VARIABLES
    store,          \* the print_jobs table: id -> row (survives a crash)
    dblock,         \* the connection holding sqlite's write lock, or "free"
    job_queue,      \* the in-memory FIFO of job ids
    STOP_WORKER,    \* the shutdown flag
    DEFAULT_PRINTER_HOST,   \* PRINTER_HOST of this deployment
    now,            \* int(time.time()) at its latest reading
    worker,         \* the worker thread: position and locals of process_job
    main,           \* the main thread: position and the rows of the recovery query
    client,         \* per request handler: position and locals
    files,          \* the output directory: job id -> content of ticket_<id>.txt
    sent,           \* what reached a printer socket: {[job_id, host, port, data]}
    acks,           \* the 201 responses given so far: a bag of [job_id, payload, orig]
    resp,           \* the 400 or 404 response given by the latest step, if any
    nDispatch,      \* per job id: how often it was moved to processing
    crashes,        \* number of restarts so far
    recovered,      \* per job id, in this run of the process: "pending" once the
                    \* first recovery call has selected it, "taken" once the worker
                    \* has then dequeued it, "no" otherwise
    upd             \* a direct call of update_job: its arguments and its outcome

vars == <<store, dblock, job_queue, STOP_WORKER, DEFAULT_PRINTER_HOST, now, worker,
          main, client, files, sent, acks, resp, nDispatch, crashes, recovered, upd>>

Statuses == {"queued", "processing", "done", "error"}

WorkerIdle == [pc |-> "idle", job_id |-> NoId, attempts |-> 0, payload |-> PEmpty,
               host |-> "", port |-> 0, data_bytes |-> <<>>, err |-> NULL]
ClientIdle == [pc |-> "idle", payload |-> PEmpty, orig |-> NoId, job_id |-> NoId, t |-> 0]
\* the latest step gave no error response
NoResp == [code |-> 200, payload |-> PEmpty, orig |-> NoId]
MainStart == [pc |-> "load1", rows |-> <<>>]
NotRecovered == [id \in JobIds |-> "no"]
\* no direct call of update_job is made
NoUpdate == [pc |-> "none", job_id |-> NoId, fields |-> <<>>, before |-> <<>>,
             raised |-> FALSE]

Init ==
    /\ store = <<>>
    /\ dblock = "free"
    /\ job_queue = <<>>
    /\ STOP_WORKER = FALSE
    /\ DEFAULT_PRINTER_HOST \in DefaultHosts
    /\ now = 0
    /\ worker = WorkerIdle
    /\ main = MainStart
    /\ client = [c \in Clients |-> ClientIdle]
    /\ files = <<>>
    /\ sent = {}
    /\ acks = EmptyBag
    /\ resp = NoResp
    /\ nDispatch = [id \in JobIds |-> 0]
    /\ crashes = 0
    /\ recovered = NotRecovered
    /\ upd = NoUpdate

\* ------------------------------------------------------------- the store
Max(S) == IF S = {} THEN 0 ELSE CHOOSE x \in S : \A y \in S : y <= x

\* INTEGER PRIMARY KEY AUTOINCREMENT: one more than the largest id ever committed
\* (no row is ever deleted, so that is the largest id in the table)
lastrowid(st) == Max(DOMAIN st) + 1

\* the row INSERTed by enqueue_job_db; last_error is left NULL
NewRow(payload, t) ==
    [payload |-> json_dumps(payload), status |-> "queued", attempts |-> 0,
     last_error |-> NULL, created_at |-> t]

\* mutant of DbWritable: writers are not serialised
NoWriteLock(who) == TRUE

\* sqlite serialises writers: a write needs the lock free (or already held)
DbWritable(who) == dblock = "free" \/ dblock = who

\* fetch_job: None for a missing id, else the parsed row
HasRow(st, id) == id \in DOMAIN st
fetch_job(st, id) ==
    [id |-> id, payload |-> json_loads(st[id].payload), status |-> st[id].status,
     attempts |-> st[id].attempts]

\* update_job: UPDATE ... SET <fields>, updated_at=? WHERE id=?; an UPDATE that
\* matches no row changes nothing and raises nothing. (No operation reads
\* updated_at; the column is left out of the rows.)
update_job(st, id, fields) ==
    IF id \in DOMAIN st
    THEN [st EXCEPT ![id] =
            [k \in DOMAIN st[id] |-> IF k \in DOMAIN fields THEN fields[k] ELSE st[id][k]]]
    ELSE st

\* mutant of PendingStatuses: recovery also takes the jobs left in processing
PendingStatusesWithProcessing == {"queued", "error", "processing"}

\* SELECT id ... WHERE status IN ('queued','error')
PendingStatuses == {"queued", "error"}
PendingIds(st) == {id \in DOMAIN st : st[id].status \in PendingStatuses}

\* mutant of Orderings: ORDER BY created_at DESC, as list_jobs has it
OrderingsDesc(st, S) ==
    {s \in [1..Cardinality(S) -> S] :
        /\ \A i, j \in 1..Cardinality(S) : i # j => s[i] # s[j]
        /\ \A i, j \in 1..Cardinality(S) :
              i < j => st[s[i]].created_at >= st[s[j]].created_at}

\* ... ORDER BY created_at ASC: every order of the ids that ascends in created_at
\* (SQL leaves the order of rows with equal created_at open)
Orderings(st, S) ==
    {s \in [1..Cardinality(S) -> S] :
        /\ \A i, j \in 1..Cardinality(S) : i # j => s[i] # s[j]
        /\ \A i, j \in 1..Cardinality(S) :
              i < j => st[s[i]].created_at <= st[s[j]].created_at}

\* ------------------------------------------------- worker_loop / process_job
\* what the worker leaves alone in every step
WorkerFrame ==
    /\ resp' = NoResp
    /\ UNCHANGED <<dblock, STOP_WORKER, DEFAULT_PRINTER_HOST, now, main, client, acks,
                   crashes, upd>>

\* the retry test of process_job: `attempts` is the value read before the increment
ShouldRetry(attempts) == attempts < max_attempts

\* mutant of ResolveHost: the configured host wins over the payload's
ResolveHostDefaultFirst(payload, dflt) == IF dflt # "" THEN dflt ELSE payload.host

\* host = printer.get("host") or DEFAULT_PRINTER_HOST
ResolveHost(payload, dflt) == IF payload.host # "" THEN payload.host ELSE dflt
\* int(printer.get("port") or DEFAULT_PRINTER_PORT) raises for a non-numeric port
PortFails(payload) == payload.port # <<>> /\ ~IsDigits(payload.port)
ResolvePort(payload) ==
    IF payload.port # <<>> THEN ParseInt(payload.port) ELSE DEFAULT_PRINTER_PORT

\* the encoder branch of process_job
UsesRaw(payload) == payload.mode = "raw" /\ Truthy(payload.raw_bytes_base64)
EncodeFails(payload) == UsesRaw(payload) /\ ~B64Ok(payload.raw_bytes_base64)
Encode(payload) ==
    IF UsesRaw(payload) THEN b64decode(payload.raw_bytes_base64)
    ELSE render_text_to_escpos_bytes(IF payload.text = Absent THEN NoText ELSE payload.text)

\* while not STOP_WORKER.is_set(): job_id = job_queue.get(timeout=1), then
\* process_job up to the encoder: fetch the row, resolve host and port,
\* update_job(job_id, status='processing', attempts=attempts+1), build
\* data_bytes. A missing row returns; an exception from int() leaves process_job
\* before the try and is swallowed by worker_loop, which goes on with the next
\* id; b64decode may raise inside the try. (Between the get and the UPDATE the
\* worker reads only the row of job_id, which no other thread writes.)
WorkerGet ==
    /\ \/ worker.pc = "idle" /\ ~STOP_WORKER
       \/ worker.pc = "inget"
    /\ job_queue # <<>>
    /\ DbWritable("worker")
    /\ job_queue' = Tail(job_queue)
    /\ recovered' = [id \in JobIds |->
                        IF id = Head(job_queue) /\ recovered[id] = "pending"
                        THEN "taken" ELSE recovered[id]]
    /\ LET job_id == Head(job_queue) IN
       IF ~HasRow(store, job_id)
       THEN /\ worker' = WorkerIdle
            /\ UNCHANGED <<store, nDispatch>>
       ELSE LET job == fetch_job(store, job_id) IN
            IF PortFails(job.payload)
            THEN /\ worker' = WorkerIdle
                 /\ UNCHANGED <<store, nDispatch>>
            ELSE /\ store' = update_job(store, job_id,
                                [status |-> "processing", attempts |-> job.attempts + 1])
                 /\ nDispatch' = [nDispatch EXCEPT ![job_id] = @ + 1]
                 /\ worker' = [pc |-> IF EncodeFails(job.payload) THEN "fail" ELSE "deliver",
                               job_id |-> job_id,
                               attempts |-> job.attempts,
                               payload |-> job.payload,
                               host |-> ResolveHost(job.payload, DEFAULT_PRINTER_HOST),
                               port |-> ResolvePort(job.payload),
                               data_bytes |-> IF EncodeFails(job.payload) THEN <<>>
                                              ELSE Encode(job.payload),
                               err |-> IF EncodeFails(job.payload) THEN "Incorrect padding"
                                       ELSE NULL]
    /\ UNCHANGED <<files, sent>>
    /\ WorkerFrame

\* mutant of WorkerExit: the flag ends the thread wherever it is, also in the
\* middle of a job
WorkerExitAbortsJob ==
    /\ \/ worker.pc \in {"idle", "deliver", "done", "fail", "backoff"} /\ STOP_WORKER
       \/ worker.pc = "inget" /\ job_queue = <<>>
    /\ worker' = [worker EXCEPT !.pc = "stopped"]
    /\ UNCHANGED <<store, job_queue, files, sent, nDispatch, recovered>>
    /\ WorkerFrame

\* the loop condition fails (for a worker inside the get: after the get has
\* timed out on an empty queue): the thread ends
WorkerExit ==
    /\ \/ worker.pc = "idle" /\ STOP_WORKER
       \/ worker.pc = "inget" /\ job_queue = <<>>
    /\ worker' = [worker EXCEPT !.pc = "stopped"]
    /\ UNCHANGED <<store, job_queue, files, sent, nDispatch, recovered>>
    /\ WorkerFrame

\* raw_tcp_print sent everything
WorkerSendOk ==
    /\ worker.pc = "deliver"
    /\ worker.host # ""
    /\ sent' = sent \cup {[job_id |-> worker.job_id, host |-> worker.host,
                           port |-> worker.port, data |-> worker.data_bytes]}
    /\ worker' = [worker EXCEPT !.pc = "done"]
    /\ UNCHANGED <<store, job_queue, files, nDispatch, recovered>>
    /\ WorkerFrame

\* raw_tcp_print returned (False, err): connect refused or timed out
WorkerSendFail ==
    /\ worker.pc = "deliver"
    /\ worker.host # ""
    /\ worker' = [worker EXCEPT !.pc = "fail", !.err = "Network print failed: timed out"]
    /\ UNCHANGED <<store, job_queue, files, sent, nDispatch, recovered>>
    /\ WorkerFrame

\* no host: ticket_<job_id>.txt is written
WorkerFileOk ==
    /\ worker.pc = "deliver"
    /\ worker.host = ""
    /\ files' = [id \in DOMAIN files \cup {worker.job_id} |->
                    IF id = worker.job_id THEN worker.data_bytes ELSE files[id]]
    /\ worker' = [worker EXCEPT !.pc = "done"]
    /\ UNCHANGED <<store, job_queue, sent, nDispatch, recovered>>
    /\ WorkerFrame

\* no host: makedirs or open raises
WorkerFileFail ==
    /\ worker.pc = "deliver"
    /\ worker.host = ""
    /\ worker' = [worker EXCEPT !.pc = "fail", !.err = "Permission denied"]
    /\ UNCHANGED <<store, job_queue, files, sent, nDispatch, recovered>>
    /\ WorkerFrame

\* mutant of WorkerDone: the success update leaves last_error as it was
WorkerDoneKeepsError ==
    /\ worker.pc = "done"
    /\ DbWritable("worker")
    /\ store' = update_job(store, worker.job_id, [status |-> "done"])
    /\ worker' = WorkerIdle
    /\ UNCHANGED <<job_queue, files, sent, nDispatch, recovered>>
    /\ WorkerFrame

\* update_job(job_id, status='done', last_error=None); task_done
WorkerDone ==
    /\ worker.pc = "done"
    /\ DbWritable("worker")
    /\ store' = update_job(store, worker.job_id, [status |-> "done", last_error |-> NULL])
    /\ worker' = WorkerIdle
    /\ UNCHANGED <<job_queue, files, sent, nDispatch, recovered>>
    /\ WorkerFrame

\* mutant of WorkerFail: the error update also writes back the attempts value
\* that was read before the increment
WorkerFailStaleAttempts ==
    /\ worker.pc = "fail"
    /\ DbWritable("worker")
    /\ store' = update_job(store, worker.job_id,
                           [status |-> "error", last_error |-> worker.err,
                            attempts |-> worker.attempts])
    /\ IF ShouldRetry(worker.attempts)
       THEN worker' = [worker EXCEPT !.pc = "backoff"]
       ELSE worker' = WorkerIdle
    /\ UNCHANGED <<job_queue, files, sent, nDispatch, recovered>>
    /\ WorkerFrame

\* except: update_job(job_id, status='error', last_error=str(e)), then the retry test
WorkerFail ==
    /\ worker.pc = "fail"
    /\ DbWritable("worker")
    /\ store' = update_job(store, worker.job_id,
                           [status |-> "error", last_error |-> worker.err])
    /\ IF ShouldRetry(worker.attempts)
       THEN worker' = [worker EXCEPT !.pc = "backoff"]
       ELSE worker' = WorkerIdle
    /\ UNCHANGED <<job_queue, files, sent, nDispatch, recovered>>
    /\ WorkerFrame

\* time.sleep(1); job_queue.put(job_id); task_done
WorkerRequeue ==
    /\ worker.pc = "backoff"
    /\ job_queue' = Append(job_queue, worker.job_id)
    /\ worker' = WorkerIdle
    /\ UNCHANGED <<store, files, sent, nDispatch, recovered>>
    /\ WorkerFrame

\* ------------------------------------ main thread: startup recovery, then serve
MainFrame ==
    /\ resp' = NoResp
    /\ UNCHANGED <<store, dblock, STOP_WORKER, DEFAULT_PRINTER_HOST, now, worker, client,
                   files, sent, acks, nDispatch, crashes, upd>>

\* where the main thread goes when a recovery loop is over: from the
\* module-level call to the call under __main__, from that one to app.run
AfterLoad(pc) == IF pc \in {"load1", "push1"} THEN "load2" ELSE "serve"

\* load_pending_jobs_into_queue, the SELECT: at module level (load1) and again
\* under __main__ (load2); with no rows the loop is over at once
LoadSelect ==
    /\ main.pc \in {"load1", "load2"}
    /\ \E rows \in Orderings(store, PendingIds(store)) :
          main' = [pc |-> IF rows = <<>> THEN AfterLoad(main.pc)
                          ELSE IF main.pc = "load1" THEN "push1" ELSE "push2",
                   rows |-> rows]
    /\ recovered' = IF main.pc = "load1"
                    THEN [id \in JobIds |-> IF id \in PendingIds(store) THEN "pending"
                                            ELSE "no"]
                    ELSE recovered
    /\ UNCHANGED job_queue
    /\ MainFrame

\* for r in rows: job_queue.put(r[0])
LoadPut ==
    /\ main.pc \in {"push1", "push2"}
    /\ job_queue' = Append(job_queue, Head(main.rows))
    /\ main' = [pc |-> IF Tail(main.rows) = <<>> THEN AfterLoad(main.pc) ELSE main.pc,
                rows |-> Tail(main.rows)]
    /\ UNCHANGED recovered
    /\ MainFrame

\* --------------------------------------------------------- request handlers
ClientFrame == UNCHANGED <<STOP_WORKER, DEFAULT_PRINTER_HOST, worker, main, files,
                           sent, nDispatch, crashes, recovered, upd>>

\* rows in the table plus inserts under way: bounds the table at MaxJobs rows
Busy == Cardinality(DOMAIN store) + Cardinality({c \in Clients : client[c].pc # "idle"})

\* mutant of PayloadValid: tests that a key is present, not that it is non-empty
PayloadValidIfPresent(payload) == payload.text # Absent \/ payload.raw_bytes_base64 # Absent

\* minimal validation of print_endpoint
PayloadValid(payload) == Truthy(payload.text) \/ Truthy(payload.raw_bytes_base64)

\* POST /print: payload = request.get_json(); 400 if it has neither text nor raw
\* bytes; else enqueue_job_db is entered and reads the time
PrintRecv(c) ==
    /\ main.pc = "serve"
    /\ client[c].pc = "idle"
    /\ Busy < MaxJobs
    /\ \E p \in Payloads :
          IF PayloadValid(p)
          THEN \E t \in now..MaxTime :
                  /\ now' = t
                  /\ client' = [client EXCEPT ![c] =
                                   [ClientIdle EXCEPT !.pc = "insert", !.payload = p, !.t = t]]
                  /\ resp' = NoResp
          ELSE /\ resp' = [code |-> 400, payload |-> p, orig |-> NoId]
               /\ UNCHANGED <<client, now>>
    /\ UNCHANGED <<store, dblock, job_queue, acks>>
    /\ ClientFrame

\* mutant of ReprintRecv: a missing original is not noticed and an empty ticket
\* is enqueued in its place
ReprintRecvNoCheck(c) ==
    /\ main.pc = "serve"
    /\ client[c].pc = "idle"
    /\ Busy < MaxJobs
    /\ \E id \in JobIds : \E t \in now..MaxTime :
          /\ now' = t
          /\ client' = [client EXCEPT ![c] =
                           [ClientIdle EXCEPT !.pc = "insert", !.orig = id, !.t = t,
                                !.payload = IF HasRow(store, id)
                                            THEN fetch_job(store, id).payload ELSE PText]]
          /\ resp' = NoResp
    /\ UNCHANGED <<store, dblock, job_queue, acks>>
    /\ ClientFrame

\* POST /reprint/<job_id>: job = fetch_job(job_id); 404 if there is none; else
\* enqueue_job_db(job["payload"]) is entered and reads the time
ReprintRecv(c) ==
    /\ main.pc = "serve"
    /\ client[c].pc = "idle"
    /\ Busy < MaxJobs
    /\ \E id \in JobIds :
          IF HasRow(store, id)
          THEN \E t \in now..MaxTime :
                  /\ now' = t
                  /\ client' = [client EXCEPT ![c] =
                                   [ClientIdle EXCEPT !.pc = "insert", !.orig = id, !.t = t,
                                        !.payload = fetch_job(store, id).payload]]
                  /\ resp' = NoResp
          ELSE /\ resp' = [code |-> 404, payload |-> PEmpty, orig |-> id]
               /\ UNCHANGED <<client, now>>
    /\ UNCHANGED <<store, dblock, job_queue, acks>>
    /\ ClientFrame

\* mutant of EnqInsert: the id is put on the work queue before the commit
EnqInsertPutFirst(c) ==
    /\ client[c].pc = "insert"
    /\ DbWritable(c)
    /\ dblock' = c
    /\ client' = [client EXCEPT ![c].pc = "commit", ![c].job_id = lastrowid(store)]
    /\ job_queue' = Append(job_queue, lastrowid(store))
    /\ resp' = NoResp
    /\ UNCHANGED <<store, acks, now>>
    /\ ClientFrame

\* enqueue_job_db: INSERT with the time read on entry; job_id = cur.lastrowid.
\* The INSERT takes the write lock; the row is not in the table until the commit.
EnqInsert(c) ==
    /\ client[c].pc = "insert"
    /\ DbWritable(c)
    /\ dblock' = c
    /\ client' = [client EXCEPT ![c].pc = "commit", ![c].job_id = lastrowid(store)]
    /\ resp' = NoResp
    /\ UNCHANGED <<store, job_queue, acks, now>>
    /\ ClientFrame

\* mutant of EnqCommit: a reprint also puts the original row back to queued
EnqCommitResetsOrig(c) ==
    /\ client[c].pc = "commit"
    /\ store' = [id \in DOMAIN store \cup {client[c].job_id} |->
                    IF id = client[c].job_id THEN NewRow(client[c].payload, client[c].t)
                    ELSE IF id = client[c].orig THEN [store[id] EXCEPT !.status = "queued"]
                    ELSE store[id]]
    /\ dblock' = "free"
    /\ client' = [client EXCEPT ![c].pc = "put"]
    /\ resp' = NoResp
    /\ UNCHANGED <<job_queue, acks, now>>
    /\ ClientFrame

\* conn.commit(): the row is durable, the lock is released
EnqCommit(c) ==
    /\ client[c].pc = "commit"
    /\ store' = [id \in DOMAIN store \cup {client[c].job_id} |->
                    IF id = client[c].job_id THEN NewRow(client[c].payload, client[c].t)
                    ELSE store[id]]
    /\ dblock' = "free"
    /\ client' = [client EXCEPT ![c].pc = "put"]
    /\ resp' = NoResp
    /\ UNCHANGED <<job_queue, acks, now>>
    /\ ClientFrame

\* job_queue.put(job_id); return job_id; the handler answers 201 with it
EnqPut(c) ==
    /\ client[c].pc = "put"
    /\ job_queue' = Append(job_queue, client[c].job_id)
    /\ acks' = acks (+) SetToBag({[job_id |-> client[c].job_id,
                                    payload |-> client[c].payload, orig |-> client[c].orig]})
    /\ client' = [client EXCEPT ![c] = ClientIdle]
    /\ resp' = NoResp
    /\ UNCHANGED <<store, dblock, now>>
    /\ ClientFrame

\* POST /stop from the local host: STOP_WORKER.set(). An idle worker is either
\* at the test of its loop or inside job_queue.get(timeout=1); the two differ
\* only from the moment the flag is set, so it is here that the model says
\* which of them it is ("inget": past the test, inside the get).
StopAgent ==
    /\ main.pc = "serve"
    /\ ~STOP_WORKER
    /\ STOP_WORKER' = TRUE
    /\ IF worker.pc = "idle"
       THEN \E pc \in {"idle", "inget"} : worker' = [worker EXCEPT !.pc = pc]
       ELSE UNCHANGED worker
    /\ resp' = NoResp
    /\ UNCHANGED <<store, dblock, job_queue, DEFAULT_PRINTER_HOST, now, main,
                   client, files, sent, acks, nDispatch, crashes, recovered, upd>>

\* ------------------------------------------------------------------- crash
\* The process dies and is started again: threads, queue, flag and an open
\* transaction are gone; the table, the output files and what the printers and
\* the callers received stay.
Crash ==
    /\ crashes < MaxCrashes
    /\ crashes' = crashes + 1
    /\ job_queue' = <<>>
    /\ dblock' = "free"
    /\ STOP_WORKER' = FALSE
    /\ worker' = WorkerIdle
    /\ main' = MainStart
    /\ client' = [c \in Clients |-> ClientIdle]
    /\ recovered' = NotRecovered
    /\ resp' = NoResp
    /\ UNCHANGED <<store, DEFAULT_PRINTER_HOST, now, files, sent, acks, nDispatch, upd>>

\* ------------------------------------------------------------ specification
Next ==
    \/ WorkerGet
    \/ WorkerExit
    \/ WorkerSendOk
    \/ WorkerSendFail
    \/ WorkerFileOk
    \/ WorkerFileFail
    \/ WorkerDone
    \/ WorkerFail
    \/ WorkerRequeue
    \/ LoadSelect
    \/ LoadPut
    \/ \E c \in Clients : PrintRecv(c)
    \/ \E c \in Clients : ReprintRecv(c)
    \/ \E c \in Clients : EnqInsert(c)
    \/ \E c \in Clients : EnqCommit(c)
    \/ \E c \in Clients : EnqPut(c)
    \/ StopAgent
    \/ Crash

Spec == Init /\ [][Next]_vars

\* ------------------------------------------------ update_job called on its own
\* largest attempts count of a row in the tables the call is tried on
MaxStoredAttempts == 2

\* the three shapes of keyword arguments process_job passes to update_job
UpdateArgs ==
    {[status |-> "processing", attempts |-> 1],
     [status |-> "done", last_error |-> NULL],
     [status |-> "error", last_error |-> "Permission denied"]}

\* the rows process_job and enqueue_job_db leave behind: a queued row is fresh,
\* a row in any other status has been dispatched, done has no last_error,
\* error has one
StoredRows ==
    {r \in [payload : {json_dumps(PText)}, status : Statuses,
            attempts : 0..MaxStoredAttempts,
            last_error : {NULL, "Permission denied"}, created_at : 0..MaxTime] :
        /\ r.status = "queued" => r.attempts = 0 /\ r.last_error = NULL
        /\ r.status # "queued" => r.attempts >= 1
        /\ r.status = "done" => r.last_error = NULL
        /\ r.status = "error" => r.last_error # NULL}

\* the tables: AUTOINCREMENT ids 1..n, no row is ever deleted
Tables == UNION {[1..n -> StoredRows] : n \in 0..MaxJobs}

\* cur.execute of an UPDATE whose WHERE matches no row succeeds (rowcount 0);
\* update_job does not look at the row count and raises nothing
update_job_raises(st, id) == FALSE

InitUpdate ==
    /\ store \in Tables
    /\ upd \in {[pc |-> "called", job_id |-> id, fields |-> f, before |-> store,
                  raised |-> FALSE] : id \in 1..(MaxJobs + 1), f \in UpdateArgs}
    /\ dblock = "free"
    /\ job_queue = <<>>
    /\ STOP_WORKER = FALSE
    /\ DEFAULT_PRINTER_HOST \in DefaultHosts
    /\ now = MaxTime
    /\ worker = WorkerIdle
    /\ main = MainStart
    /\ client = [c \in Clients |-> ClientIdle]
    /\ files = <<>>
    /\ sent = {}
    /\ acks = EmptyBag
    /\ resp = NoResp
    /\ nDispatch = [id \in JobIds |-> 0]
    /\ crashes = 0
    /\ recovered = NotRecovered

\* update_job(job_id, **kwargs), from the connect to the close
UpdateJobCall ==
    /\ upd.pc = "called"
    /\ DbWritable("caller")
    /\ store' = update_job(store, upd.job_id, upd.fields)
    /\ upd' = [upd EXCEPT !.pc = "returned",
                          !.raised = update_job_raises(store, upd.job_id)]
    /\ UNCHANGED <<dblock, job_queue, STOP_WORKER, DEFAULT_PRINTER_HOST, now, worker,
                   main, client, files, sent, acks, resp, nDispatch, crashes, recovered>>

NextUpdate == UpdateJobCall

SpecUpdate == InitUpdate /\ [][NextUpdate]_vars

\* ---------------------------------------------------------------- claims
Range(q) == {q[i] : i \in DOMAIN q}
AckedIds == {r.job_id : r \in BagToSet(acks)}
\* the job is at rest: not in the queue and not in the worker's hands
Settled(id) == id \notin Range(job_queue) /\ worker.job_id # id
\* the clients that are inside enqueue_job_db
InFlight == {c \in Clients : client[c].pc # "idle"}

\* C1: every id that an admission call has returned or that is in the work
\* queue has its row in the table, in every reachable state, and an admission
\* call that is about to push and return its id has its row in the table with
\* status queued and attempts 0: the commit comes before the push and the
\* return, so a crash anywhere inside the call loses no acknowledged job.
C1_DurableBeforeAck ==
    /\ \A id \in AckedIds \cup Range(job_queue) : HasRow(store, id)
    /\ \A c \in Clients :
          client[c].pc = "put" =>
              /\ HasRow(store, client[c].job_id)
              /\ store[client[c].job_id].status = "queued"
              /\ store[client[c].job_id].attempts = 0

\* C1 witness: after a restart, an acknowledged job is in the table and back in
\* the work queue
C1_Witness ==
    /\ crashes = 1
    /\ \E id \in AckedIds : HasRow(store, id) /\ id \in Range(job_queue)

\* C2: without a crash, no job is dispatched (moved to processing) more than
\* max_attempts = 3 times before it comes to rest in done or in error.
C2_AtMostMaxAttempts ==
    crashes = 0 => \A id \in JobIds : nDispatch[id] <= max_attempts

\* C3: without a crash, a failed job is waiting for its re-enqueue only while
\* its stored attempts is below max_attempts = 3; a job at rest in error has
\* attempts exactly 3 and a last_error; a job at rest in done has as many
\* attempts as dispatches were made for it, at least 1.
C3_RetryExactlyMax ==
    crashes = 0 =>
        /\ worker.pc = "backoff" => store[worker.job_id].attempts < max_attempts
        /\ \A id \in DOMAIN store :
              /\ (Settled(id) /\ store[id].status = "error") =>
                    /\ store[id].attempts = max_attempts
                    /\ store[id].last_error # NULL
              /\ (Settled(id) /\ store[id].status = "done") =>
                    /\ store[id].attempts = nDispatch[id]
                    /\ store[id].attempts >= 1

\* C4: every change of a stored status follows queued -> processing,
\* processing -> done, processing -> error or error -> queued, the last only
\* while attempts < 3.
C4_OnlySpecEdges ==
    [][\A id \in DOMAIN store :
          store'[id].status # store[id].status =>
              \/ store[id].status = "queued" /\ store'[id].status = "processing"
              \/ store[id].status = "processing" /\ store'[id].status \in {"done", "error"}
              \/ /\ store[id].status = "error" /\ store'[id].status = "queued"
                 /\ store[id].attempts < max_attempts]_vars

\* C5: once a job is done, or in error with attempts >= max_attempts, no step
\* changes its status or attempts or dispatches it again.
C5_TerminalStays ==
    [][\A id \in DOMAIN store :
          (\/ store[id].status = "done"
           \/ store[id].status = "error" /\ store[id].attempts >= max_attempts) =>
              /\ store'[id].status = store[id].status
              /\ store'[id].attempts = store[id].attempts
              /\ nDispatch'[id] = nDispatch[id]]_vars

\* C6: a step of load_pending_jobs_into_queue changes no row; its SELECT yields
\* each id whose status is queued or error exactly once and no other id (a job
\* left in processing is not among them); each put appends the next of these
\* ids to the work queue.
C6_RecoveryFrame ==
    [][(main' # main /\ crashes' = crashes) =>
          /\ store' = store
          /\ main.pc \in {"load1", "load2"} =>
                /\ Range(main'.rows) = {id \in DOMAIN store :
                                           store[id].status \in {"queued", "error"}}
                /\ Len(main'.rows) = Cardinality(Range(main'.rows))
                /\ job_queue' = job_queue
          /\ main.pc \in {"push1", "push2"} =>
                /\ job_queue' = Append(job_queue, Head(main.rows))
                /\ main'.rows = Tail(main.rows)]_vars

\* C6 witness: after a restart the first recovery has run to its end, a job
\* that was in processing at the crash is still in processing and not in the
\* queue, and a queued or error job is in the queue
C6_Witness ==
    /\ crashes = 1
    /\ main.pc = "load2"
    /\ worker.pc = "idle"
    /\ \E id \in DOMAIN store : store[id].status = "processing" /\ id \notin Range(job_queue)
    /\ \E id \in Range(job_queue) : store[id].status \in {"queued", "error"}

\* C7: the ids returned by admission calls are pairwise distinct, each names a
\* row holding the payload of its own call, and an id handed out by an INSERT
\* that is not yet committed is the id of no row in the table and of no other
\* call under way.
C7_DistinctIds ==
    /\ \A r \in BagToSet(acks) :
          /\ CopiesIn(r, acks) = 1
          /\ \A r2 \in BagToSet(acks) : r2.job_id = r.job_id => r2 = r
          /\ HasRow(store, r.job_id)
          /\ store[r.job_id].payload = json_dumps(r.payload)
    /\ \A c \in Clients :
          client[c].pc = "commit" =>
              /\ ~HasRow(store, client[c].job_id)
              /\ client[c].job_id \notin AckedIds
    /\ \A c, d \in Clients :
          (c # d /\ client[c].pc \in {"commit", "put"} /\ client[d].pc \in {"commit", "put"})
              => client[c].job_id # client[d].job_id

\* C7 witness: two admission calls are under way at once, both with their id
C7_Witness ==
    \E c, d \in Clients :
        /\ c # d
        /\ client[c].pc = "put"
        /\ client[d].pc \in {"commit", "put"}
        /\ client[c].job_id # client[d].job_id

\* C8: a reprint call returns an id other than the original's; its commit
\* creates a row with the original's payload, status queued and attempts 0; its
\* put appends the new id to the work queue; and no step of the call changes
\* the original row.
C8_ReprintFrame ==
    [][\A c \in Clients :
          (client'[c] # client[c] /\ crashes' = crashes) =>
              LET orig == IF client[c].pc = "idle" THEN client'[c].orig ELSE client[c].orig
                  new == client[c].job_id
              IN  orig # NoId =>
                  /\ store'[orig] = store[orig]
                  /\ client[c].pc = "commit" =>
                        /\ new # orig
                        /\ DOMAIN store' = DOMAIN store \cup {new}
                        /\ store'[new].payload = store[orig].payload
                        /\ store'[new].status = "queued"
                        /\ store'[new].attempts = 0
                        /\ store'[new].last_error = NULL
                  /\ client[c].pc = "put" =>
                        /\ job_queue' = Append(job_queue, new)
                        /\ store' = store
                        /\ acks' = acks (+) SetToBag({[job_id |-> new,
                                        payload |-> json_loads(store[orig].payload),
                                        orig |-> orig]})]_vars

\* C8 witness: a reprint of a finished job has been answered, the original is
\* still done and the copy is in the table
C8_Witness ==
    \E r \in BagToSet(acks) :
        /\ r.orig # NoId
        /\ r.job_id # r.orig
        /\ store[r.orig].status = "done"
        /\ store[r.job_id].payload = store[r.orig].payload

\* C9: a /print request with neither text nor raw bytes is answered 400 in a
\* step that changes neither the table nor the work queue; no row and no call
\* under way ever holds such a payload.
NeitherTextNorRaw(p) ==
    /\ p.text = Absent \/ p.text = <<>>
    /\ p.raw_bytes_base64 = Absent \/ p.raw_bytes_base64 = <<>>

C9_RejectInvalid ==
    /\ [](/\ \A id \in DOMAIN store : ~NeitherTextNorRaw(json_loads(store[id].payload))
          /\ \A c \in InFlight : ~NeitherTextNorRaw(client[c].payload)
          /\ resp.code = 400 => NeitherTextNorRaw(resp.payload))
    /\ [][resp'.code = 400 => (store' = store /\ job_queue' = job_queue /\ acks' = acks
                               /\ client' = client)]_vars

\* C9 witness: a request without text and raw bytes has just been answered 400
C9_Witness ==
    /\ resp.code = 400
    /\ NeitherTextNorRaw(resp.payload)
    /\ DOMAIN store # {}

\* C10: whenever the dispatch of a dequeued job fails, in resolving the target,
\* in encoding or in the transport, the step that ends the attempt leaves the
\* job in status error with last_error set and every other row unchanged, and
\* the worker goes on (it is idle or in its backoff, not stopped).
C10_FailureRecorded ==
    [][crashes' = crashes =>
          /\ \A id \in DOMAIN store :
                (/\ worker.pc \in {"idle", "inget"} /\ worker'.pc = "idle"
                 /\ job_queue # <<>> /\ Head(job_queue) = id
                 /\ job_queue' = Tail(job_queue)) =>
                    /\ store'[id].status = "error"
                    /\ store'[id].last_error # NULL
          /\ (worker.pc = "fail" /\ worker'.pc # "fail") =>
                /\ store'[worker.job_id].status = "error"
                /\ store'[worker.job_id].last_error # NULL
                /\ \A id \in DOMAIN store \ {worker.job_id} : store'[id] = store[id]
                /\ worker'.pc \in {"idle", "backoff"}]_vars

\* C11: a /reprint of an id that has no row is answered 404 in a step that
\* changes neither the table nor the work queue nor any call under way, and it
\* never enters enqueue_job_db: every reprint call under way has an original
\* that is in the table.
C11_ReprintNotFound ==
    /\ [](\A c \in InFlight : client[c].orig # NoId => HasRow(store, client[c].orig))
    /\ [][resp'.code = 404 =>
            /\ ~HasRow(store, resp'.orig)
            /\ store' = store
            /\ job_queue' = job_queue
            /\ acks' = acks
            /\ client' = client
            /\ dblock' = dblock]_vars

\* C11 witness: a reprint of an id that is not in the table has just been
\* answered 404 while the table holds another job and the queue is not empty
C11_Witness ==
    /\ resp.code = 404
    /\ ~HasRow(store, resp.orig)
    /\ DOMAIN store # {}
    /\ job_queue # <<>>

\* C12: when the worker delivers a text job for which neither the payload nor
\* the configuration gives a host, a successful delivery writes ticket_<id>.txt
\* and nothing else; its content is exactly the UTF-8 bytes of the stored text,
\* then 0x0A, then 0x1D 0x56 0x31 (for the text "H\u00e9": 48 C3 A9 0A 1D 56 31);
\* and the step that follows it records the job as done.
StoredPayload(id) == json_loads(store[id].payload)
TextJobToFile(id) ==
    /\ ~(StoredPayload(id).mode = "raw" /\ Truthy(StoredPayload(id).raw_bytes_base64))
    /\ StoredPayload(id).text # Absent
    /\ StoredPayload(id).host = ""
    /\ DEFAULT_PRINTER_HOST = ""

C13_UpdateMissingFails ==
    upd.pc = "returned" =>
        IF HasRow(upd.before, upd.job_id)
        THEN /\ ~upd.raised
             /\ DOMAIN store = DOMAIN upd.before
             /\ \A id \in DOMAIN store \ {upd.job_id} : store[id] = upd.before[id]
             /\ \A k \in DOMAIN store[upd.job_id] :
                   store[upd.job_id][k] = IF k \in DOMAIN upd.fields THEN upd.fields[k]
                                          ELSE upd.before[upd.job_id][k]
        ELSE /\ upd.raised
             /\ store = upd.before

\* C14: in every reachable state a done job has last_error NULL, an error job
\* has a non-empty last_error, and a job that was never dispatched has none;
\* last_error changes only in the step that records the outcome of an attempt
\* of that job: to the error text when the attempt failed, to NULL when it
\* succeeded. So it is set only if the latest finished attempt failed.
C14_LastErrorOnlyAfterFailure ==
    /\ [](\A id \in DOMAIN store :
            /\ store[id].status = "done" => store[id].last_error = NULL
            /\ store[id].status = "error" => store[id].last_error \notin {NULL, ""}
            /\ nDispatch[id] = 0 => store[id].last_error = NULL)
    /\ [][\A id \in DOMAIN store :
            store'[id].last_error # store[id].last_error =>
                /\ worker.job_id = id
                /\ \/ /\ worker.pc = "fail"
                      /\ store'[id].status = "error"
                      /\ store'[id].last_error # NULL
                   \/ /\ worker.pc = "done"
                      /\ store'[id].status = "done"
                      /\ store'[id].last_error = NULL]_vars

\* C14 witness: without a restart, a job that failed once and then succeeded
\* is done with its last_error cleared
C14_Witness ==
    /\ crashes = 0
    /\ \E id \in DOMAIN store :
          /\ store[id].status = "done"
          /\ nDispatch[id] >= 2
          /\ store[id].last_error = NULL

\* C15: the stored attempts of a job always equals the number of times the
\* worker has moved it to processing; it changes only in the step in which
\* the worker dequeues the id and moves it to processing, and then by exactly
\* one; every such step does change it. It never decreases.
C15_AttemptsCountDispatches ==
    /\ [](\A id \in DOMAIN store : store[id].attempts = nDispatch[id])
    /\ [][\A id \in DOMAIN store :
            /\ store'[id].attempts >= store[id].attempts
            /\ store'[id].attempts # store[id].attempts =>
                  /\ job_queue # <<>>
                  /\ Head(job_queue) = id
                  /\ job_queue' = Tail(job_queue)
                  /\ worker'.job_id = id
                  /\ store'[id].status = "processing"
                  /\ store'[id].attempts = store[id].attempts + 1
            /\ (worker.job_id # id /\ worker'.job_id = id /\ crashes' = crashes) =>
                  /\ store'[id].status = "processing"
                  /\ store'[id].attempts = store[id].attempts + 1]_vars

\* C15 witness: a job has been dispatched twice, a reprint of it has been
\* answered, and its attempts is still 2
C15_Witness ==
    \E r \in BagToSet(acks) :
        /\ r.orig # NoId
        /\ store[r.orig].attempts = 2
        /\ nDispatch[r.orig] = 2
        /\ store[r.job_id].attempts = 0

\* C16: a raw job whose base64 text cannot be decoded never reaches a
\* transport (no file of its id, nothing sent for it, the worker never holds
\* it at the delivery or success step); each of its dispatches counts in
\* attempts and ends in status error with last_error set; and without a
\* restart it is dispatched at most max_attempts = 3 times.
Undecodable(id) ==
    /\ StoredPayload(id).mode = "raw"
    /\ Truthy(StoredPayload(id).raw_bytes_base64)
    /\ Len(StoredPayload(id).raw_bytes_base64) % 4 # 0

C16_UndecodableRaw ==
    /\ [](\A id \in DOMAIN store : Undecodable(id) =>
            /\ id \notin DOMAIN files
            /\ \A r \in sent : r.job_id # id
            /\ worker.job_id = id => worker.pc \in {"fail", "backoff"}
            /\ store[id].attempts = nDispatch[id]
            /\ crashes = 0 => nDispatch[id] <= max_attempts)
    /\ [][\A id \in DOMAIN store :
            (/\ Undecodable(id) /\ worker.job_id = id /\ crashes' = crashes
             /\ worker.pc = "fail" /\ worker'.pc # "fail") =>
                /\ store'[id].status = "error"
                /\ store'[id].last_error # NULL
                /\ store'[id].attempts = nDispatch[id]
                /\ worker'.pc \in {"idle", "backoff"}]_vars

\* C17: once the flag is set, a worker that is in the middle of a job is not
\* stopped there: it leaves the job only with the job recorded done or error
\* and is then back at the test of its loop; from there it dequeues nothing
\* and can only end; once it has ended, no row changes and no id leaves the
\* work queue. While the table can be written, the step of the job in hand
\* is enabled whether or not the flag is set.
InJob == worker.pc \in {"deliver", "done", "fail", "backoff"}
KeepsQueued(q1, q2) == Len(q2) >= Len(q1) /\ SubSeq(q2, 1, Len(q1)) = q1
WorkerStep ==
    \/ WorkerSendOk \/ WorkerSendFail \/ WorkerFileOk \/ WorkerFileFail
    \/ WorkerDone \/ WorkerFail \/ WorkerRequeue

C17_CooperativeStop ==
    /\ []((STOP_WORKER /\ InJob /\ dblock = "free") => ENABLED WorkerStep)
    /\ [][(STOP_WORKER /\ crashes' = crashes) =>
            /\ InJob =>
                  /\ worker'.pc # "stopped"
                  /\ worker'.job_id \in {worker.job_id, NoId}
                  /\ worker'.job_id = NoId =>
                        /\ worker'.pc = "idle"
                        /\ store'[worker.job_id].status \in {"done", "error"}
            /\ worker.pc \in {"idle", "stopped"} =>
                  /\ worker'.pc \in {worker.pc, "stopped"}
                  /\ KeepsQueued(job_queue, job_queue')
                  /\ \A id \in DOMAIN store : store'[id] = store[id]]_vars

\* C17 witness: the flag is set and the worker has ended; a job it had in hand
\* is done, and a queued job is still in the work queue, untouched
C17_Witness ==
    /\ STOP_WORKER
    /\ worker.pc = "stopped"
    /\ \E id \in DOMAIN store : store[id].status = "done"
    /\ \E id \in Range(job_queue) : store[id].status = "queued" /\ store[id].attempts = 0

\* C18: the rows a recovery call has still to push are in ascending created_at
\* order, and of two jobs selected by the first recovery call of a run, the one
\* with the smaller created_at is the first to be dequeued by the worker in
\* that run.
C18_RecoveryOrder ==
    /\ \A i, j \in DOMAIN main.rows :
          i < j => store[main.rows[i]].created_at <= store[main.rows[j]].created_at
    /\ \A a, b \in DOMAIN store :
          (/\ recovered[a] # "no"
           /\ recovered[b] = "taken"
           /\ store[a].created_at < store[b].created_at) => recovered[a] = "taken"

\* C18 witness: after a restart two recovered jobs have both been dequeued, and
\* the one with the smaller created_at is the one with the larger id
C18_Witness ==
    /\ crashes = 1
    /\ \E a, b \in DOMAIN store :
          /\ a > b
          /\ store[a].created_at < store[b].created_at
          /\ recovered[a] = "taken"
          /\ recovered[b] = "taken"

\* C19: in the step that ends a delivery, the host is the stored payload's
\* host if it is non-empty and the configured default otherwise, the port is
\* the payload's port if it has one and 9100 otherwise ("91" gives 91); with a
\* non-empty host the step is the network transport's (on success exactly one
\* record with this job, host, port and the encoded bytes is added to what was
\* sent, and no file is touched; on failure an error of the network
\* transport); with no host it is the file transport's (on success
\* ticket_<id>.txt holds the encoded bytes and nothing is sent; on failure an
\* error of the file transport). No other step sends or writes anything.
TargetHost(id) ==
    IF StoredPayload(id).host # "" THEN StoredPayload(id).host ELSE DEFAULT_PRINTER_HOST
TargetPort(id) ==
    IF StoredPayload(id).port = <<>> THEN 9100
    ELSE IF StoredPayload(id).port = <<57, 49>> THEN 91
    ELSE ParseInt(StoredPayload(id).port)

C19_TransportChoice ==
    [][crashes' = crashes =>
          /\ (worker.pc = "deliver" /\ worker'.pc # "deliver") =>
                LET id == worker.job_id IN
                /\ worker'.pc \in {"done", "fail"}
                /\ TargetHost(id) # "" =>
                      /\ files' = files
                      /\ worker'.pc = "done" =>
                            sent' = sent \cup {[job_id |-> id, host |-> TargetHost(id),
                                                port |-> TargetPort(id),
                                                data |-> worker.data_bytes]}
                      /\ worker'.pc = "fail" =>
                            sent' = sent /\ worker'.err = "Network print failed: timed out"
                /\ TargetHost(id) = "" =>
                      /\ sent' = sent
                      /\ worker'.pc = "done" =>
                            /\ DOMAIN files' = DOMAIN files \cup {id}
                            /\ files'[id] = worker.data_bytes
                            /\ \A k \in DOMAIN files \ {id} : files'[k] = files[k]
                      /\ worker'.pc = "fail" =>
                            files' = files /\ worker'.err = "Permission denied"
          /\ ~(worker.pc = "deliver" /\ worker'.pc # "deliver") =>
                (files' = files /\ sent' = sent)]_vars

\* C19 witness: with a default host configured, a job that names its own host
\* and port was sent there, and a job that names none was sent to the default
\* host on port 9100
C19_Witness ==
    /\ DEFAULT_PRINTER_HOST = "192.168.1.50"
    /\ \E r \in sent : r.host = "10.0.0.1" /\ r.port = 91
    /\ \E r \in sent : r.host = "192.168.1.50" /\ r.port = 9100

\* C20: in every reachable state each job id is pending at most once, counting
\* its occurrences in the work queue plus one if the worker has it in hand (in
\* an attempt or in the backoff before the re-enqueue); and no job is delivered
\* to a transport when it has been delivered before.
Occurrences(q, id) == Cardinality({i \in DOMAIN q : q[i] = id})
PendingCount(id) == Occurrences(job_queue, id) + (IF worker.job_id = id THEN 1 ELSE 0)
Delivered(id) == id \in DOMAIN files \/ \E r \in sent : r.job_id = id

C20_PendingAtMostOnce ==
    /\ [](\A id \in JobIds : PendingCount(id) <= 1)
    /\ [][(worker.pc = "deliver" /\ worker'.pc = "done") => ~Delivered(worker.job_id)]_vars
====
